---- MODULE Spec2Model ----
(***************************************************************************)
(* State-machine model of the 6004cem-parallel demonstration programs.     *)
(* Each program of the repository is one value of `prog`; a behaviour is   *)
(* one run of one program.  The MPI programs are modelled as worldSize     *)
(* processes stepping through main(); the OpenMP hello-world programs as   *)
(* the initial thread plus the thread team of the parallel region.         *)
(***************************************************************************)
EXTENDS Integers, Sequences, FiniteSets, Bags, TLC

VARIABLES
    prog,        \* which program of the repository is running
    worldSize,   \* MPI_Comm_size(MPI_COMM_WORLD)
    sendMode,    \* how the MPI library completes MPI_Send: "buffered" or "sync"
    pc,          \* position of every MPI process in main()
    i,           \* master's receive-loop index (mpi_partb_slaves1/2)
    destRank,    \* master's send-loop index (mpi_partc_tag)
    net,         \* messages sent and not yet matched by a receive
    arrived,     \* ranks that have entered MPI_Barrier
    aborted,     \* MPI_Abort has been called
    abortStatus, \* the error code handed to MPI_Abort
    mpiCalls,    \* number of MPI_Send / MPI_Recv calls issued so far
    out,         \* bag of lines written to std::cout / std::cerr
    mpc,         \* position of the initial thread of an OpenMP program
    tpc,         \* position of every thread of the OpenMP team
    mtx,         \* thread that owns std::mutex mtx, or Unlocked
    cin,         \* characters of standard input not yet consumed
    failbit,     \* std::cin's failbit
    eofbit,      \* std::cin's eofbit
    numThreads,  \* int numThreads of openmp_parta_helloworld3
    hasError,    \* bool hasError of openmp_parta_helloworld3
    envThreads,  \* OMP_NUM_THREADS, the team size openmp_parta_helloworld2 gets
    call,        \* the arguments of the runSchedule / measureSchedule call
    numProcs,    \* omp_get_num_procs()
    staticKind,  \* how the OpenMP runtime cuts schedule(static) without a chunk size
    vect1,       \* std::vector<int> vect1
    vect2,       \* std::vector<int> vect2
    vect3,       \* std::vector<int> vect3
    fpc,         \* position of the calling thread in the function
    wpc,         \* position of every thread of the team in the loop body
    myChunk,     \* the chunk every thread is working on
    cur,         \* the loop index i of every thread
    nextChunk,   \* the next chunk schedule(dynamic) hands out
    crit,        \* thread inside #pragma omp critical, or Unlocked
    rows,        \* bag of table rows printed by printTableRow
    mainAt,      \* position of main() of openmp_partb_schedule / openmp_partc_matrix
    section,     \* the section of that main(): "behaviour", "balanced" or "imbalanced"
    loopI,       \* int i of the loop over vector sizes / matrix sizes
    j,           \* int j of the repetition loop
    len1,        \* vect1.size() in main()
    len2,        \* vect2.size() in main()
    len3,        \* vect3.size() in main()
    outOfRange,  \* a call has indexed a vector beyond its size
    matrix1,     \* first operand of the matrix multiplication
    matrix2,     \* second operand of the matrix multiplication
    resultMatrix, \* the matrix the products are added into
    rowI,        \* int i of multiplyInnerParallel's sequential loop
    tj,          \* int j of every thread (multiplyOuterParallel)
    tk,          \* int k of every thread
    sum,         \* the sum a thread has computed and not yet stored
    accessedBy,  \* the threads that have read or written each cell of resultMatrix
    threadIdx,   \* position of main()'s loop over kNumThreadsOptions
    outerResult, \* Matrix outerResult of main() of openmp_partc_matrix
    innerResult, \* Matrix innerResult
    collapseResult \* Matrix collapseResult

mpiVars == <<worldSize, sendMode, pc, i, destRank, net, arrived, aborted,
             abortStatus, mpiCalls>>
ompVars == <<mpc, tpc, mtx, cin, failbit, eofbit, numThreads, hasError, envThreads>>
schedVars == <<call, numProcs, staticKind, vect1, vect2, vect3, fpc, wpc, myChunk,
               cur, nextChunk, crit, rows>>
mainVars == <<mainAt, section, loopI, j, len1, len2, len3, outOfRange>>
matVars == <<matrix1, matrix2, resultMatrix, rowI, tj, tk, sum, accessedBy>>
runVars == <<threadIdx, outerResult, innerResult, collapseResult>>
vars == <<prog, out, mpiVars, ompVars, schedVars, mainVars, matVars, runVars>>

(***************************************************************************)
(* Bounds of the model.                                                    *)
(***************************************************************************)
MaxWorld == 5        \* largest number of MPI processes launched
MaxCount == 2        \* a line's multiplicity in `out` saturates here

(***************************************************************************)
(* Program names and program constants.                                    *)
(***************************************************************************)
MpiHello1 == "mpi_parta_helloworld1"
MpiHello2 == "mpi_parta_helloworld2"
MpiSlaves1 == "mpi_partb_slaves1"
MpiSlaves2 == "mpi_partb_slaves2"
MpiTag == "mpi_partc_tag"
MpiPrograms == {MpiHello1, MpiHello2, MpiSlaves1, MpiSlaves2, MpiTag}
SlavePrograms == {MpiSlaves1, MpiSlaves2}
BarrierPrograms == {MpiHello1, MpiHello2}

kMasterRank == 0
kMaxMessageLength == 100
kMasterTag == 100
kSlaveWaitTag == 101
kSlavesTag == 0
kAbortCode == 1
kRequiredProcesses == 4
kMinProcesses == 2
SizeofInt == 4
SizeofChar == 1
MPI_ANY_SOURCE == -1
NoAbort == -1
Unlocked == -1

Ranks == 0 .. (worldSize - 1)
Procs == 0 .. (MaxWorld - 1)

(***************************************************************************)
(* Console output: a bag of lines.  Every line has the same four fields.   *)
(***************************************************************************)
Line(kind, rank, text, tag) ==
    [kind |-> kind, rank |-> rank, text |-> text, tag |-> tag]

Emit(b, l) ==
    IF l \in DOMAIN b
    THEN IF b[l] < MaxCount THEN [b EXCEPT ![l] = @ + 1] ELSE b
    ELSE b @@ (l :> 1)

Count(b, l) == IF l \in DOMAIN b THEN b[l] ELSE 0

Printed(kind) == {l \in DOMAIN out : l.kind = kind}

ErrorLine == Line("error", kMasterRank, "must be run with the required processes", 0)
BannerLine == Line("banner", kMasterRank, prog, 0)
AllReceivedLine ==
    Line("all_received", kMasterRank, "Master: All messages received from slave processes", 0)
(* Mutant: every process prints the master's rank. *)
HelloLineMasterRank(r) == Line("hello", kMasterRank, "Hello world", 0)

HelloLine(r) == Line("hello", r, "Hello world", 0)

(***************************************************************************)
(* The process-count guard at the top of main().                           *)
(***************************************************************************)
(* Mutants: helloworld1 tests "fewer than 4"; the others test "fewer than 1". *)
BadCountTooFew(p, ws) ==
    CASE p = MpiHello1 -> ws < kRequiredProcesses
      [] p = MpiHello2 -> FALSE
      [] OTHER -> ws < kMinProcesses

BadCountNoProcess(p, ws) ==
    CASE p = MpiHello1 -> ws # kRequiredProcesses
      [] p = MpiHello2 -> FALSE
      [] OTHER -> ws < kMinProcesses - 1

BadCount(p, ws) ==
    CASE p = MpiHello1 -> ws # kRequiredProcesses
      [] p = MpiHello2 -> FALSE
      [] OTHER -> ws < kMinProcesses

(***************************************************************************)
(* Names used in the messages.                                             *)
(***************************************************************************)
(* Mutant: the switch is off by one rank. *)
NameOfShifted(r) ==
    CASE r = 0 -> "John"
      [] r = 1 -> "Mary"
      [] r = 2 -> "Susan"
      [] OTHER -> "unnamed process"

NameOf(r) ==
    CASE r = 1 -> "John"
      [] r = 2 -> "Mary"
      [] r = 3 -> "Susan"
      [] OTHER -> "unnamed process"

(* The message a process sends: destination, tag and payload. *)
SendMsg(p, r, d) ==
    CASE p = MpiSlaves1 ->
            [src |-> r, dst |-> kMasterRank, tag |-> kSlavesTag,
             ival |-> r, text |-> "", bytes |-> 1 * SizeofInt]
      [] p = MpiSlaves2 ->
            [src |-> r, dst |-> kMasterRank, tag |-> kSlavesTag,
             ival |-> 0, text |-> "Hello, I am " \o NameOf(r),
             bytes |-> (Len("Hello, I am " \o NameOf(r)) + 1) * SizeofChar]
      [] OTHER ->
            [src |-> r, dst |-> d, tag |-> kMasterTag,
             ival |-> 0, text |-> "Hello, " \o NameOf(d),
             bytes |-> (Len("Hello, " \o NameOf(d)) + 1) * SizeofChar]

(* The source and tag arguments of the program's MPI_Recv. *)
RecvSource(p) == IF p \in SlavePrograms THEN MPI_ANY_SOURCE ELSE kMasterRank
RecvTag(p) == IF p \in SlavePrograms THEN kSlavesTag ELSE kSlaveWaitTag

(* Bytes the receive may take: count * extent of the datatype given. *)
RecvCapacity(p) ==
    CASE p = MpiSlaves1 -> 1 * SizeofInt
      [] p = MpiSlaves2 -> kMaxMessageLength * SizeofInt
      [] OTHER -> kMaxMessageLength * SizeofChar

(* Mutant: the receive takes a message of any tag. *)
MatchesAnyTag(m, r, p) ==
    /\ m.dst = r
    /\ (RecvSource(p) = MPI_ANY_SOURCE \/ m.src = RecvSource(p))

Matches(m, r, p) ==
    /\ m.dst = r
    /\ m.tag = RecvTag(p)
    /\ (RecvSource(p) = MPI_ANY_SOURCE \/ m.src = RecvSource(p))

(* Mutant: the receiver prints its own rank instead of the one received. *)
ReceivedLineOwnRank(p, r, m) ==
    CASE p = MpiSlaves1 -> Line("received", r, "Hello back", 0)
      [] p = MpiSlaves2 -> Line("received", r, m.text, 0)
      [] OTHER -> Line("slave_received", r, m.text, m.tag)

(* The line printed after a receive returns. *)
ReceivedLine(p, r, m) ==
    CASE p = MpiSlaves1 -> Line("received", m.ival, "Hello back", 0)
      [] p = MpiSlaves2 -> Line("received", m.src, m.text, 0)
      [] OTHER -> Line("slave_received", r, m.text, m.tag)

(* Mutant: the receive loop runs one pass too many (i <= worldSize). *)
MoreToReceiveInclusive(k, ws) == k <= ws

(* Mutant: the receive loop stops one pass early (i < worldSize - 1). *)
MoreToReceiveShort(k, ws) == k < ws - 1

(* Loop tests of the master's for loops. *)
MoreToReceive(k, ws) == k < ws
MoreToSend(d, ws) == d < ws

Running(r) == pc[r] \notin {"done", "aborted", "killed"}

(***************************************************************************)
(* MPI actions.                                                            *)
(***************************************************************************)
MpiUnchanged == UNCHANGED <<prog, worldSize, sendMode, ompVars, schedVars, mainVars, matVars,
                            runVars>>

(* if (worldRank == kMasterRank && bad count) { cerr << ...; MPI_Abort(.., 1); } *)
AbortOnBadCount(r) ==
    /\ r \in Ranks
    /\ pc[r] = "check"
    /\ r = kMasterRank /\ BadCount(prog, worldSize)
    /\ out' = Emit(out, ErrorLine)
    /\ aborted' = TRUE
    /\ abortStatus' = kAbortCode
    /\ pc' = [pc EXCEPT ![r] = "aborted"]
    /\ UNCHANGED <<i, destRank, net, arrived, mpiCalls>>
    /\ MpiUnchanged

PassCount(r) ==
    /\ r \in Ranks
    /\ pc[r] = "check"
    /\ ~(r = kMasterRank /\ BadCount(prog, worldSize))
    /\ pc' = [pc EXCEPT ![r] = "banner"]
    /\ UNCHANGED <<i, destRank, net, arrived, aborted, abortStatus, mpiCalls, out>>
    /\ MpiUnchanged

(* MPI_Abort ends every other process of the communicator. *)
Kill(r) ==
    /\ r \in Ranks
    /\ aborted
    /\ Running(r)
    /\ pc' = [pc EXCEPT ![r] = "killed"]
    /\ UNCHANGED <<i, destRank, net, arrived, aborted, abortStatus, mpiCalls, out>>
    /\ MpiUnchanged

(* if (worldRank == kMasterRank) { cout << banner and configuration ... } *)
Banner(r) ==
    /\ r \in Ranks
    /\ pc[r] = "banner"
    /\ out' = IF r = kMasterRank THEN Emit(out, BannerLine) ELSE out
    /\ pc' = [pc EXCEPT ![r] =
                CASE prog \in BarrierPrograms -> "barrier"
                  [] prog \in SlavePrograms ->
                        IF r = kMasterRank
                        THEN (IF MoreToReceive(1, worldSize) THEN "recv" ELSE "summary")
                        ELSE "send"
                  [] OTHER ->
                        IF r = kMasterRank
                        THEN (IF MoreToSend(1, worldSize) THEN "send" ELSE "finalize")
                        ELSE "wait"]
    /\ UNCHANGED <<i, destRank, net, arrived, aborted, abortStatus, mpiCalls>>
    /\ MpiUnchanged

(* MPI_Barrier(MPI_COMM_WORLD): enter, then leave once every rank has entered. *)
BarrierEnter(r) ==
    /\ r \in Ranks
    /\ pc[r] = "barrier"
    /\ arrived' = arrived \cup {r}
    /\ pc' = [pc EXCEPT ![r] = "inbarrier"]
    /\ UNCHANGED <<i, destRank, net, aborted, abortStatus, mpiCalls, out>>
    /\ MpiUnchanged

(* Mutant: the barrier returns without waiting for the other ranks. *)
BarrierLeaveEarly(r) ==
    /\ r \in Ranks
    /\ pc[r] = "inbarrier"
    /\ pc' = [pc EXCEPT ![r] = "hello"]
    /\ UNCHANGED <<i, destRank, net, arrived, aborted, abortStatus, mpiCalls, out>>
    /\ MpiUnchanged

BarrierLeave(r) ==
    /\ r \in Ranks
    /\ pc[r] = "inbarrier"
    /\ arrived = Ranks
    /\ pc' = [pc EXCEPT ![r] = "hello"]
    /\ UNCHANGED <<i, destRank, net, arrived, aborted, abortStatus, mpiCalls, out>>
    /\ MpiUnchanged

(* cout << "[Process " << worldRank << " - " << processorName << "] Hello world\n" *)
Hello(r) ==
    /\ r \in Ranks
    /\ pc[r] = "hello"
    /\ out' = Emit(out, HelloLine(r))
    /\ pc' = [pc EXCEPT ![r] = "finalize"]
    /\ UNCHANGED <<i, destRank, net, arrived, aborted, abortStatus, mpiCalls>>
    /\ MpiUnchanged

(* MPI_Send: the slaves' single send, or one pass of the tag master's loop. *)
Send(r) ==
    /\ r \in Ranks
    /\ pc[r] = "send"
    /\ LET m == SendMsg(prog, r, destRank)
           last == r # kMasterRank \/ ~MoreToSend(destRank + 1, worldSize)
       IN /\ net' = net \cup {m}
          /\ out' = IF r = kMasterRank
                    THEN Emit(out, Line("sending", m.dst, m.text, m.tag))
                    ELSE out
          /\ pc' = [pc EXCEPT ![r] =
                      IF sendMode = "sync" THEN "sendwait"
                      ELSE IF last THEN "finalize" ELSE "send"]
          /\ destRank' = IF r = kMasterRank /\ sendMode # "sync"
                         THEN destRank + 1 ELSE destRank
    /\ mpiCalls' = mpiCalls + 1
    /\ UNCHANGED <<i, arrived, aborted, abortStatus>>
    /\ MpiUnchanged

(* A send that waits for its receive returns once the message was matched. *)
SendComplete(r) ==
    /\ r \in Ranks
    /\ pc[r] = "sendwait"
    /\ \A m \in net : m.src # r
    /\ LET last == r # kMasterRank \/ ~MoreToSend(destRank + 1, worldSize)
       IN pc' = [pc EXCEPT ![r] = IF last THEN "finalize" ELSE "send"]
    /\ destRank' = IF r = kMasterRank THEN destRank + 1 ELSE destRank
    /\ UNCHANGED <<i, net, arrived, aborted, abortStatus, mpiCalls, out>>
    /\ MpiUnchanged

(* cout << "[Process r] Waiting to receive message with tag 101...\n" *)
SlaveWait(r) ==
    /\ r \in Ranks
    /\ pc[r] = "wait"
    /\ out' = Emit(out, Line("waiting", r, "Waiting to receive message", kSlaveWaitTag))
    /\ pc' = [pc EXCEPT ![r] = "recv"]
    /\ UNCHANGED <<i, destRank, net, arrived, aborted, abortStatus, mpiCalls>>
    /\ MpiUnchanged

(* MPI_Recv is called: the receive is posted. *)
PostRecv(r) ==
    /\ r \in Ranks
    /\ pc[r] = "recv"
    /\ pc' = [pc EXCEPT ![r] = "recvwait"]
    /\ mpiCalls' = mpiCalls + 1
    /\ UNCHANGED <<i, destRank, net, arrived, aborted, abortStatus, out>>
    /\ MpiUnchanged

(* MPI_Recv returns with a matching message, and the line after it is printed. *)
Recv(r) ==
    /\ r \in Ranks
    /\ pc[r] = "recvwait"
    /\ \E m \in net :
          /\ Matches(m, r, prog)
          /\ net' = net \ {m}
          /\ IF m.bytes > RecvCapacity(prog)
             THEN /\ aborted' = TRUE
                  /\ abortStatus' = kAbortCode
                  /\ pc' = [pc EXCEPT ![r] = "aborted"]
                  /\ UNCHANGED <<out, i>>
             ELSE /\ out' = Emit(out, ReceivedLine(prog, r, m))
                  /\ i' = IF r = kMasterRank THEN i + 1 ELSE i
                  /\ pc' = [pc EXCEPT ![r] =
                              IF r = kMasterRank
                              THEN (IF MoreToReceive(i + 1, worldSize)
                                    THEN "recv" ELSE "summary")
                              ELSE "finalize"]
                  /\ UNCHANGED <<aborted, abortStatus>>
    /\ UNCHANGED <<destRank, arrived, mpiCalls>>
    /\ MpiUnchanged

(* cout << "Master: All messages received from slave processes" *)
AllReceived(r) ==
    /\ r \in Ranks
    /\ pc[r] = "summary"
    /\ out' = Emit(out, AllReceivedLine)
    /\ pc' = [pc EXCEPT ![r] = "finalize"]
    /\ UNCHANGED <<i, destRank, net, arrived, aborted, abortStatus, mpiCalls>>
    /\ MpiUnchanged

(* MPI_Finalize(); return 0; *)
Finalize(r) ==
    /\ r \in Ranks
    /\ pc[r] = "finalize"
    /\ pc' = [pc EXCEPT ![r] = "done"]
    /\ UNCHANGED <<i, destRank, net, arrived, aborted, abortStatus, mpiCalls, out>>
    /\ MpiUnchanged

ProcStep(r) ==
    \/ AbortOnBadCount(r)
    \/ PassCount(r)
    \/ Banner(r)
    \/ BarrierEnter(r)
    \/ BarrierLeave(r)
    \/ Hello(r)
    \/ Send(r)
    \/ SendComplete(r)
    \/ SlaveWait(r)
    \/ PostRecv(r)
    \/ Recv(r)
    \/ AllReceived(r)
    \/ Finalize(r)

NoCall == [fn |-> "none", scheduleType |-> "none", numThreads |-> 0,
           chunkSize |-> 0, isBalanced |-> FALSE]

SchedIdle ==
    /\ call = NoCall
    /\ numProcs = 1
    /\ staticKind = "balanced"
    /\ vect1 = <<>>
    /\ vect2 = <<>>
    /\ vect3 = <<>>
    /\ fpc = "none"
    /\ wpc = <<>>
    /\ myChunk = <<>>
    /\ cur = <<>>
    /\ nextChunk = 0
    /\ crit = Unlocked
    /\ rows = <<>>

MainIdle ==
    /\ mainAt = "none"
    /\ section = "none"
    /\ loopI = 0
    /\ j = 0
    /\ len1 = 0
    /\ len2 = 0
    /\ len3 = 0
    /\ outOfRange = FALSE

MatIdle ==
    /\ matrix1 = <<>>
    /\ matrix2 = <<>>
    /\ resultMatrix = <<>>
    /\ rowI = 0
    /\ tj = <<>>
    /\ tk = <<>>
    /\ sum = <<>>
    /\ accessedBy = <<>>

(* No result matrix is in scope: dimension 0. *)
NoMatrix == [size |-> 0, products |-> 0]

RunIdle ==
    /\ threadIdx = 0
    /\ outerResult = NoMatrix
    /\ innerResult = NoMatrix
    /\ collapseResult = NoMatrix

OmpIdle ==
    /\ mpc = "none"
    /\ tpc = <<>>
    /\ mtx = Unlocked
    /\ cin = <<>>
    /\ failbit = FALSE
    /\ eofbit = FALSE
    /\ numThreads = 0
    /\ hasError = FALSE
    /\ envThreads = 1

InitMPI ==
    /\ prog \in MpiPrograms
    /\ worldSize \in 1 .. MaxWorld
    /\ sendMode \in {"buffered", "sync"}
    /\ pc = [r \in Ranks |-> IF prog = MpiHello2 THEN "banner" ELSE "check"]
    /\ i = 1
    /\ destRank = 1
    /\ net = {}
    /\ arrived = {}
    /\ aborted = FALSE
    /\ abortStatus = NoAbort
    /\ mpiCalls = 0
    /\ out = <<>>
    /\ OmpIdle
    /\ SchedIdle
    /\ MainIdle
    /\ MatIdle
    /\ RunIdle

NextMPI ==
    \E r \in Procs :
        \/ AbortOnBadCount(r)
        \/ PassCount(r)
        \/ Kill(r)
        \/ Banner(r)
        \/ BarrierEnter(r)
        \/ BarrierLeave(r)
        \/ Hello(r)
        \/ Send(r)
        \/ SendComplete(r)
        \/ SlaveWait(r)
        \/ PostRecv(r)
        \/ Recv(r)
        \/ AllReceived(r)
        \/ Finalize(r)

SpecMPI == InitMPI /\ [][NextMPI]_vars

FairSpecMPI ==
    /\ SpecMPI
    /\ \A r \in Procs : WF_vars(ProcStep(r))

(***************************************************************************)
(* The OpenMP hello-world programs.                                        *)
(***************************************************************************)
MaxThreads == 4      \* largest OMP_NUM_THREADS of the environment
MaxEntries == 2      \* largest number of lines typed on standard input

OmpHello1 == "openmp_parta_helloworld1"
OmpHello2 == "openmp_parta_helloworld2"
OmpHello3 == "openmp_parta_helloworld3"
OmpPrograms == {OmpHello1, OmpHello2, OmpHello3}

kNumThreads == 10

ThreadIds == 0 .. (kNumThreads + MaxThreads - 1)

(* Lines a user may type, as characters, without the newline. *)
Entries ==
    { <<"2">>, <<"3">>, <<"0">>, <<"-", "1">>, <<"x">>, <<"2", "x">>,
      <<"x", "2">>, <<"0", " ", "3">>, <<" ", "1">>, <<"-">>, <<>> }

RECURSIVE Typed(_)
Typed(n) ==
    IF n = 0 THEN {<<>>}
    ELSE Typed(n - 1) \cup
         {s \o e \o <<"\n">> : s \in Typed(n - 1), e \in Entries}

(* Every input stream: whole lines, the last one with or without its newline. *)
Inputs ==
    Typed(MaxEntries) \cup
    {s \o e : s \in Typed(MaxEntries - 1), e \in Entries}

(* Values an uninitialised int may hold. *)
Garbage == {-3, 0, 5}

IsSpace(c) == c \in {" ", "\n"}
IsDigit(c) == c \in {"0", "1", "2", "3"}
DigitVal(c) == CASE c = "0" -> 0 [] c = "1" -> 1 [] c = "2" -> 2 [] OTHER -> 3

RECURSIVE SkipWs(_)
SkipWs(s) == IF s # <<>> /\ IsSpace(Head(s)) THEN SkipWs(Tail(s)) ELSE s

RECURSIVE DigitCount(_)
DigitCount(s) == IF s # <<>> /\ IsDigit(Head(s)) THEN 1 + DigitCount(Tail(s)) ELSE 0

RECURSIVE NumVal(_, _)
NumVal(s, acc) == IF s = <<>> THEN acc ELSE NumVal(Tail(s), 10 * acc + DigitVal(Head(s)))

(* std::cin >> numThreads on stream s; good: no state bit is set; old: the  *)
(* variable's value before the call.                                        *)
Extract(s, good, old) ==
    IF ~good
    THEN [rest |-> s, fail |-> TRUE, eof |-> FALSE, val |-> old]
    ELSE LET t == SkipWs(s) IN
         IF t = <<>>
         THEN [rest |-> t, fail |-> TRUE, eof |-> TRUE, val |-> old]
         ELSE LET neg == Head(t) = "-"
                  u == IF neg THEN Tail(t) ELSE t
                  n == DigitCount(u)
                  v == NumVal(SubSeq(u, 1, n), 0)
                  rest == SubSeq(u, n + 1, Len(u))
              IN IF n = 0
                 THEN [rest |-> u, fail |-> TRUE, eof |-> (u = <<>>), val |-> 0]
                 ELSE [rest |-> rest, fail |-> FALSE, eof |-> (rest = <<>>),
                       val |-> IF neg THEN 0 - v ELSE v]

(* std::cin.ignore(max, '\n'): drop characters up to and including a newline. *)
RECURSIVE Ignore(_)
Ignore(s) ==
    IF s = <<>> THEN [rest |-> <<>>, eof |-> TRUE]
    ELSE IF Head(s) = "\n" THEN [rest |-> Tail(s), eof |-> FALSE]
    ELSE Ignore(Tail(s))

(* Mutant: zero is taken for a valid thread count. *)
InvalidNegativeOnly(fail, n) == fail \/ n < 0

(* if (std::cin.fail() || numThreads <= 0) *)
Invalid(fail, n) == fail \/ n <= 0

(* Mutant: the thread number of the initial thread is printed by all. *)
omp_get_thread_num_initial(t) == 0

(* omp_get_thread_num() called by thread t of the team. *)
omp_get_thread_num(t) == t

(* The num_threads of the program's parallel region. *)
TeamSize(p) ==
    CASE p = OmpHello1 -> kNumThreads
      [] p = OmpHello2 -> envThreads
      [] OTHER -> numThreads

PromptLine == Line("prompt", 0, "Enter number of threads: ", 0)
InvalidLine == Line("invalid", 0, "Invalid input. Please enter a positive integer", 0)
ThreadHelloLine(tid) == Line("thread_hello", tid, "Hello world", 0)

OmpUnchanged == UNCHANGED <<prog, mpiVars, envThreads, schedVars, mainVars, matVars,
                            runVars>>

(* while (hasError) { std::cout << "Enter number of threads: "; *)
Prompt ==
    /\ mpc = "prompt"
    /\ hasError
    /\ out' = Emit(out, PromptLine)
    /\ mpc' = "read"
    /\ UNCHANGED <<tpc, mtx, cin, failbit, eofbit, numThreads, hasError>>
    /\ OmpUnchanged

(* std::cin >> numThreads; *)
ReadInput ==
    /\ mpc = "read"
    /\ LET x == Extract(cin, ~failbit /\ ~eofbit, numThreads)
       IN /\ cin' = x.rest
          /\ failbit' = (failbit \/ x.fail)
          /\ eofbit' = (eofbit \/ x.eof)
          /\ numThreads' = x.val
    /\ mpc' = "check"
    /\ UNCHANGED <<tpc, mtx, hasError, out>>
    /\ OmpUnchanged

(* Invalid input: cin.clear(); cin.ignore(max, '\n'); print the message. *)
Reject ==
    /\ mpc = "check"
    /\ Invalid(failbit, numThreads)
    /\ LET x == Ignore(cin)
       IN /\ cin' = x.rest
          /\ failbit' = FALSE
          /\ eofbit' = x.eof
    /\ out' = Emit(out, InvalidLine)
    /\ mpc' = "prompt"
    /\ UNCHANGED <<tpc, mtx, numThreads, hasError>>
    /\ OmpUnchanged

(* Valid input: hasError = false; the loop ends. *)
Accept ==
    /\ mpc = "check"
    /\ ~Invalid(failbit, numThreads)
    /\ hasError' = FALSE
    /\ mpc' = "fork"
    /\ UNCHANGED <<tpc, mtx, cin, failbit, eofbit, numThreads, out>>
    /\ OmpUnchanged

(* #pragma omp parallel num_threads(...): the team starts. *)
Fork ==
    /\ mpc = "fork"
    /\ tpc' = [t \in 0 .. (TeamSize(prog) - 1) |-> "lock"]
    /\ mpc' = "join"
    /\ UNCHANGED <<mtx, cin, failbit, eofbit, numThreads, hasError, out>>
    /\ OmpUnchanged

(* The end of the parallel region: every thread of the team has finished. *)
Join ==
    /\ mpc = "join"
    /\ \A t \in DOMAIN tpc : tpc[t] = "done"
    /\ mpc' = "done"
    /\ UNCHANGED <<tpc, mtx, cin, failbit, eofbit, numThreads, hasError, out>>
    /\ OmpUnchanged

(* Mutant: the lock is taken without waiting for its owner to release it. *)
LockNoWait(t) ==
    /\ t \in DOMAIN tpc
    /\ tpc[t] = "lock"
    /\ mtx' = t
    /\ tpc' = [tpc EXCEPT ![t] = "print"]
    /\ UNCHANGED <<mpc, cin, failbit, eofbit, numThreads, hasError, out>>
    /\ OmpUnchanged

(* mtx.lock(), or the constructor of std::lock_guard. *)
Lock(t) ==
    /\ t \in DOMAIN tpc
    /\ tpc[t] = "lock"
    /\ mtx = Unlocked
    /\ mtx' = t
    /\ tpc' = [tpc EXCEPT ![t] = "print"]
    /\ UNCHANGED <<mpc, cin, failbit, eofbit, numThreads, hasError, out>>
    /\ OmpUnchanged

(* int tid = omp_get_thread_num(); cout << "Thread " << tid << ": Hello world" *)
PrintHello(t) ==
    /\ t \in DOMAIN tpc
    /\ tpc[t] = "print"
    /\ out' = Emit(out, ThreadHelloLine(omp_get_thread_num(t)))
    /\ tpc' = [tpc EXCEPT ![t] = "unlock"]
    /\ UNCHANGED <<mpc, mtx, cin, failbit, eofbit, numThreads, hasError>>
    /\ OmpUnchanged

(* Mutant: the thread leaves the region without releasing the mutex. *)
UnlockForgotten(t) ==
    /\ t \in DOMAIN tpc
    /\ tpc[t] = "unlock"
    /\ tpc' = [tpc EXCEPT ![t] = "done"]
    /\ UNCHANGED <<mpc, mtx, cin, failbit, eofbit, numThreads, hasError, out>>
    /\ OmpUnchanged

(* mtx.unlock(), or the destructor of std::lock_guard. *)
Unlock(t) ==
    /\ t \in DOMAIN tpc
    /\ tpc[t] = "unlock"
    /\ mtx' = Unlocked
    /\ tpc' = [tpc EXCEPT ![t] = "done"]
    /\ UNCHANGED <<mpc, cin, failbit, eofbit, numThreads, hasError, out>>
    /\ OmpUnchanged

MainStep == Prompt \/ ReadInput \/ Reject \/ Accept \/ Fork \/ Join
ThreadStep(t) == Lock(t) \/ PrintHello(t) \/ Unlock(t)

MpiIdle ==
    /\ worldSize = 0
    /\ sendMode = "buffered"
    /\ pc = <<>>
    /\ i = 1
    /\ destRank = 1
    /\ net = {}
    /\ arrived = {}
    /\ aborted = FALSE
    /\ abortStatus = NoAbort
    /\ mpiCalls = 0

InitOMP ==
    /\ prog \in OmpPrograms
    /\ envThreads \in (IF prog = OmpHello2 THEN 1 .. MaxThreads ELSE {1})
    /\ cin \in (IF prog = OmpHello3 THEN Inputs ELSE {<<>>})
    /\ numThreads \in (IF prog = OmpHello3 THEN Garbage ELSE {0})
    /\ hasError = (prog = OmpHello3)
    /\ mpc = IF prog = OmpHello3 THEN "prompt" ELSE "fork"
    /\ tpc = <<>>
    /\ mtx = Unlocked
    /\ failbit = FALSE
    /\ eofbit = FALSE
    /\ out = <<>>
    /\ MpiIdle
    /\ SchedIdle
    /\ MainIdle
    /\ MatIdle
    /\ RunIdle

NextOMP ==
    \/ Prompt
    \/ ReadInput
    \/ Reject
    \/ Accept
    \/ Fork
    \/ Join
    \/ \E t \in ThreadIds : Lock(t) \/ PrintHello(t) \/ Unlock(t)

SpecOMP == InitOMP /\ [][NextOMP]_vars

FairSpecOMP ==
    /\ SpecOMP
    /\ WF_vars(MainStep)
    /\ \A t \in ThreadIds : WF_vars(ThreadStep(t))

(***************************************************************************)
(* openmp_partb_schedule: one call of runSchedule or measureSchedule.      *)
(* The team runs the parallel loop under the schedule the call selects;    *)
(* the OpenMP runtime's rules for schedule(static) and schedule(dynamic)   *)
(* are the operators ChunkLo, ChunkHi, NumChunks and NextChunkOf.          *)
(***************************************************************************)
MaxSize == 4         \* largest vector of the calls other than main's
MaxTeam == 3         \* largest team of the calls other than main's
MaxChunk == 2        \* largest chunk size of the calls other than main's

OmpSchedule == "openmp_partb_schedule"

kSchedNumThreads == 4
kStaticChunkSize == 2
kDynamicChunkSize == 2
kSize == 12
kValue1 == 10
kValue2 == 20
kValue3 == 0

Min(a, b) == IF a < b THEN a ELSE b
CeilDiv(a, b) == (a + b - 1) \div b

(* initVector: size elements, each equal to value (indices from 0). *)
initVector(size, value) == [k \in 0 .. (size - 1) |-> value]
VectSize(v) == Cardinality(DOMAIN v)

Call(fn, type, threads, chunk, balanced) ==
    [fn |-> fn, scheduleType |-> type, numThreads |-> threads,
     chunkSize |-> chunk, isBalanced |-> balanced]

(* The two static calls main makes in its scheduling-behaviour section. *)
MainStaticCalls ==
    { Call("runSchedule", "static", kSchedNumThreads, 0, FALSE),
      Call("runSchedule", "static", kSchedNumThreads, kStaticChunkSize, FALSE) }

(* Calls with small arguments, of every kind the two functions accept. *)
SmallCalls ==
    { Call("runSchedule", ty, n, c, FALSE) :
          ty \in {"static", "dynamic", "guided"}, n \in 0 .. MaxTeam, c \in 0 .. MaxChunk }
    \cup
    { Call("measureSchedule", ty, n, c, b) :
          ty \in {"static", "dynamic", "guided"}, n \in 0 .. MaxTeam,
          c \in {0, kDynamicChunkSize}, b \in BOOLEAN }

(* if (numThreads == 0) numThreads = omp_get_num_procs(); *)
TeamOf(c, procs) == IF c.numThreads = 0 THEN procs ELSE c.numThreads

(* The chunk size of the schedule clause; 0 when the clause names none.    *)
(* measureSchedule never passes its chunkSize on.                          *)
ClauseChunk(c) ==
    IF c.fn = "runSchedule" /\ c.chunkSize > 0 THEN c.chunkSize ELSE 0

(* Mutant: schedule(static) is always dealt in chunks of one iteration. *)
OneChunkEachNever(c) == FALSE

(* schedule(static) without a chunk size: at most one chunk per thread,    *)
(* of about equal size.                                                    *)
OneChunkEach(c) == c.scheduleType = "static" /\ ClauseChunk(c) = 0

(* Mutant: the chunk size of the clause is not honoured. *)
ChunkLenOne(c) == 1

ChunkLen(c) == IF ClauseChunk(c) > 0 THEN ClauseChunk(c) ELSE 1

(* Mutant: a trailing chunk shorter than the chunk size is never handed out. *)
NumChunksFloor(c, n, team) ==
    IF OneChunkEach(c) THEN team ELSE n \div ChunkLen(c)

NumChunks(c, n, team) ==
    IF OneChunkEach(c) THEN team ELSE CeilDiv(n, ChunkLen(c))

ChunkLo(c, kind, n, team, k) ==
    IF OneChunkEach(c)
    THEN IF kind = "balanced"
         THEN k * (n \div team) + Min(k, n % team)
         ELSE Min(k * CeilDiv(n, team), n)
    ELSE k * ChunkLen(c)

(* Mutant: a chunk handed out with a chunk size ends after its first iteration. *)
ChunkHiFirstOnly(c, kind, n, team, k) ==
    IF OneChunkEach(c)
    THEN IF kind = "balanced"
         THEN (k + 1) * (n \div team) + Min(k + 1, n % team)
         ELSE Min((k + 1) * CeilDiv(n, team), n)
    ELSE Min(k * ChunkLen(c) + 1, n)

ChunkHi(c, kind, n, team, k) ==
    IF OneChunkEach(c)
    THEN IF kind = "balanced"
         THEN (k + 1) * (n \div team) + Min(k + 1, n % team)
         ELSE Min((k + 1) * CeilDiv(n, team), n)
    ELSE Min((k + 1) * ChunkLen(c), n)

(* Mutant: a static thread walks on to the very next chunk. *)
NextChunkOfEveryChunk(c, team, t, mine, shared) ==
    IF c.scheduleType = "static"
    THEN (IF mine < 0 THEN t ELSE mine + 1)
    ELSE shared

(* The chunk thread t works on after chunk `mine` (-1: none yet): static   *)
(* deals the chunks round-robin in thread order, dynamic hands out the     *)
(* next chunk nobody has taken.                                            *)
NextChunkOf(c, team, t, mine, shared) ==
    IF c.scheduleType = "static"
    THEN (IF mine < 0 THEN t ELSE mine + team)
    ELSE shared

kSizeOf(v) == VectSize(v)
Team == DOMAIN wpc
TeamIds == 0 .. (kSchedNumThreads + MaxTeam - 1)

SchedUnchanged == UNCHANGED <<prog, out, mpiVars, ompVars, mainVars, matVars, runVars, call,
                              numProcs, staticKind, vect1, vect2>>

(* The call reaches its parallel for: the team starts. *)
StartLoop ==
    /\ fpc = "entry"
    /\ call.scheduleType \in {"static", "dynamic"}
    /\ LET team == TeamOf(call, numProcs)
       IN /\ wpc' = [t \in 0 .. (team - 1) |-> "take"]
          /\ myChunk' = [t \in 0 .. (team - 1) |-> -1]
          /\ cur' = [t \in 0 .. (team - 1) |-> -1]
    /\ nextChunk' = 0
    /\ fpc' = "loop"
    /\ UNCHANGED <<vect3, crit, rows>>
    /\ SchedUnchanged

(* scheduleType is neither "static" nor "dynamic": no loop runs. *)
SkipLoop ==
    /\ fpc = "entry"
    /\ call.scheduleType \notin {"static", "dynamic"}
    /\ fpc' = "returned"
    /\ UNCHANGED <<vect3, wpc, myChunk, cur, nextChunk, crit, rows>>
    /\ SchedUnchanged

(* The runtime gives thread t its next iteration, or none. *)
Take(t) ==
    /\ t \in Team
    /\ wpc[t] = "take"
    /\ LET n == kSizeOf(vect1)
           team == Cardinality(Team)
           more == myChunk[t] >= 0
                   /\ cur[t] + 1 < ChunkHi(call, staticKind, n, team, myChunk[t])
           k == NextChunkOf(call, team, t, myChunk[t], nextChunk)
           fresh == k < NumChunks(call, n, team)
                    /\ ChunkLo(call, staticKind, n, team, k)
                         < ChunkHi(call, staticKind, n, team, k)
       IN IF more
          THEN /\ cur' = [cur EXCEPT ![t] = @ + 1]
               /\ wpc' = [wpc EXCEPT ![t] = "body"]
               /\ UNCHANGED <<myChunk, nextChunk>>
          ELSE IF fresh
          THEN /\ myChunk' = [myChunk EXCEPT ![t] = k]
               /\ cur' = [cur EXCEPT ![t] = ChunkLo(call, staticKind, n, team, k)]
               /\ nextChunk' = IF call.scheduleType = "dynamic"
                               THEN nextChunk + 1 ELSE nextChunk
               /\ wpc' = [wpc EXCEPT ![t] = "body"]
          ELSE /\ wpc' = [wpc EXCEPT ![t] = "barrier"]
               /\ UNCHANGED <<myChunk, cur, nextChunk>>
    /\ UNCHANGED <<vect3, fpc, crit, rows>>
    /\ SchedUnchanged

(* int tid = omp_get_thread_num(); vect3[i] = vect1[i] + vect2[i]; *)
Body(t) ==
    /\ t \in Team
    /\ wpc[t] = "body"
    /\ vect3' = [vect3 EXCEPT ![cur[t]] = vect1[cur[t]] + vect2[cur[t]]]
    /\ wpc' = [wpc EXCEPT ![t] = IF call.fn = "runSchedule" THEN "critical" ELSE "take"]
    /\ UNCHANGED <<fpc, myChunk, cur, nextChunk, crit, rows>>
    /\ SchedUnchanged

(* Mutant: the critical region is entered without waiting. *)
EnterCriticalNoWait(t) ==
    /\ t \in Team
    /\ wpc[t] = "critical"
    /\ crit' = t
    /\ wpc' = [wpc EXCEPT ![t] = "row"]
    /\ UNCHANGED <<vect3, fpc, myChunk, cur, nextChunk, rows>>
    /\ SchedUnchanged

(* #pragma omp critical: wait until no thread is inside. *)
EnterCritical(t) ==
    /\ t \in Team
    /\ wpc[t] = "critical"
    /\ crit = Unlocked
    /\ crit' = t
    /\ wpc' = [wpc EXCEPT ![t] = "row"]
    /\ UNCHANGED <<vect3, fpc, myChunk, cur, nextChunk, rows>>
    /\ SchedUnchanged

(* printTableRow({tid, i, vect3[i]}, kColWidths); the critical region ends. *)
PrintRow(t) ==
    /\ t \in Team
    /\ wpc[t] = "row"
    /\ rows' = Emit(rows, [tid |-> omp_get_thread_num(t), iter |-> cur[t],
                           result |-> vect3[cur[t]]])
    /\ crit' = Unlocked
    /\ wpc' = [wpc EXCEPT ![t] = "take"]
    /\ UNCHANGED <<vect3, fpc, myChunk, cur, nextChunk>>
    /\ SchedUnchanged

(* The implicit barrier at the end of the parallel for; the function returns. *)
EndLoop ==
    /\ fpc = "loop"
    /\ \A t \in Team : wpc[t] = "barrier"
    /\ fpc' = "returned"
    /\ UNCHANGED <<vect3, wpc, myChunk, cur, nextChunk, crit, rows>>
    /\ SchedUnchanged

InitSched ==
    /\ prog = OmpSchedule
    /\ \E size \in 0 .. MaxSize :
          /\ call \in SmallCalls
          /\ vect1 = [k \in 0 .. (size - 1) |-> kValue1 + k]
          /\ vect2 = initVector(size, kValue2)
          /\ vect3 = initVector(size, kValue3)
       \/ /\ call \in MainStaticCalls
          /\ size = 0
          /\ vect1 = initVector(kSize, kValue1)
          /\ vect2 = initVector(kSize, kValue2)
          /\ vect3 = initVector(kSize, kValue3)
    /\ numProcs \in (IF call.numThreads = 0 THEN 1 .. MaxTeam ELSE {1})
    /\ staticKind \in (IF OneChunkEach(call) THEN {"balanced", "greedy"} ELSE {"balanced"})
    /\ fpc = "entry"
    /\ wpc = <<>>
    /\ myChunk = <<>>
    /\ cur = <<>>
    /\ nextChunk = 0
    /\ crit = Unlocked
    /\ rows = <<>>
    /\ out = <<>>
    /\ MpiIdle
    /\ OmpIdle
    /\ MainIdle
    /\ MatIdle
    /\ RunIdle

NextSched ==
    \/ StartLoop
    \/ SkipLoop
    \/ EndLoop
    \/ \E t \in TeamIds : Take(t) \/ Body(t) \/ EnterCritical(t) \/ PrintRow(t)

SpecSched == InitSched /\ [][NextSched]_vars

(***************************************************************************)
(* openmp_partb_schedule: main().  The vectors are followed by their       *)
(* lengths; every call of runSchedule and measureSchedule is one step that *)
(* runs its loop over 0 .. vect1.size() - 1 on all three vectors.          *)
(***************************************************************************)
kMaxSize == 1000000
kStartSize == 10
kSizeMultiplication == 10
kTestCount == 100

(* Mutant: the sweeps keep the vectors of the behaviour section. *)
SizeArgumentBehaviour(sec, size) == kSize

(* The size main hands to initVector: kSize, or kCurrentSize = i in a sweep. *)
SizeArgument(sec, size) == IF sec = "behaviour" THEN kSize ELSE size

(* The runSchedule calls of the behaviour section, in order. *)
BehaviourCalls ==
    <<Call("runSchedule", "static", kSchedNumThreads, 0, FALSE),
      Call("runSchedule", "static", kSchedNumThreads, kStaticChunkSize, FALSE),
      Call("runSchedule", "dynamic", kSchedNumThreads, 0, FALSE),
      Call("runSchedule", "dynamic", kSchedNumThreads, kDynamicChunkSize, FALSE)>>

(* for (i = 0; i < vect1.size(); ++i) vect3[i] = vect1[i] + vect2[i] goes  *)
(* beyond the end of a vector shorter than vect1.                          *)
IndexesBeyond(n1, n2, n3) == n2 < n1 \/ n3 < n1

MainUnchanged == UNCHANGED <<prog, out, mpiVars, ompVars, matVars, runVars, numProcs, staticKind,
                             vect1, vect2, vect3, fpc, wpc, myChunk, cur, nextChunk,
                             crit, rows>>

(* initVector(vect1, ..); initVector(vect2, ..); initVector(vect3, ..); *)
InitVectorStep ==
    /\ mainAt \in {"init1", "init2", "init3"}
    /\ LET size == SizeArgument(section, loopI)
       IN /\ len1' = IF mainAt = "init1" THEN size ELSE len1
          /\ len2' = IF mainAt = "init2" THEN size ELSE len2
          /\ len3' = IF mainAt = "init3" THEN size ELSE len3
    /\ mainAt' = CASE mainAt = "init1" -> "init2"
                   [] mainAt = "init2" -> "init3"
                   [] OTHER -> IF section = "behaviour" THEN "run" ELSE "repeat"
    /\ j' = IF mainAt = "init3" THEN 0 ELSE j
    /\ UNCHANGED <<call, section, loopI, outOfRange>>
    /\ MainUnchanged

(* The next runSchedule call of the behaviour section. *)
RunScheduleCall ==
    /\ mainAt = "run"
    /\ j < Len(BehaviourCalls)
    /\ call' = BehaviourCalls[j + 1]
    /\ outOfRange' = (outOfRange \/ IndexesBeyond(len1, len2, len3))
    /\ j' = j + 1
    /\ UNCHANGED <<mainAt, section, loopI, len1, len2, len3>>
    /\ MainUnchanged

(* The behaviour section is over: for (int i = kStartSize; ... *)
StartSweep ==
    /\ \/ mainAt = "run" /\ j = Len(BehaviourCalls) /\ section' = "balanced"
       \/ mainAt = "sweep" /\ section = "balanced" /\ loopI > kMaxSize
          /\ section' = "imbalanced"
    /\ loopI' = kStartSize
    /\ mainAt' = "sweep"
    /\ UNCHANGED <<call, j, len1, len2, len3, outOfRange>>
    /\ MainUnchanged

(* i <= kMaxSize: the body of the sweep starts. *)
SweepBody ==
    /\ mainAt = "sweep"
    /\ loopI <= kMaxSize
    /\ mainAt' = "init1"
    /\ UNCHANGED <<call, section, loopI, j, len1, len2, len3, outOfRange>>
    /\ MainUnchanged

(* j < kTestCount: staticTime += measureSchedule(.., "static", ..); *)
MeasureStatic ==
    /\ mainAt = "repeat"
    /\ j < kTestCount
    /\ call' = Call("measureSchedule", "static", kSchedNumThreads, 0, section = "balanced")
    /\ outOfRange' = (outOfRange \/ IndexesBeyond(len1, len2, len3))
    /\ mainAt' = "dynamic"
    /\ UNCHANGED <<section, loopI, j, len1, len2, len3>>
    /\ MainUnchanged

(* dynamicTime += measureSchedule(.., "dynamic", ..); j++ *)
MeasureDynamic ==
    /\ mainAt = "dynamic"
    /\ call' = Call("measureSchedule", "dynamic", kSchedNumThreads, 0, section = "balanced")
    /\ outOfRange' = (outOfRange \/ IndexesBeyond(len1, len2, len3))
    /\ j' = j + 1
    /\ mainAt' = "repeat"
    /\ UNCHANGED <<section, loopI, len1, len2, len3>>
    /\ MainUnchanged

(* j == kTestCount: the row of this size is printed; i *= kSizeMultiplication *)
NextSize ==
    /\ mainAt = "repeat"
    /\ j >= kTestCount
    /\ loopI' = loopI * kSizeMultiplication
    /\ mainAt' = "sweep"
    /\ UNCHANGED <<call, section, j, len1, len2, len3, outOfRange>>
    /\ MainUnchanged

(* The imbalanced sweep is over: return 0. *)
MainReturn ==
    /\ mainAt = "sweep"
    /\ section = "imbalanced"
    /\ loopI > kMaxSize
    /\ mainAt' = "done"
    /\ UNCHANGED <<call, section, loopI, j, len1, len2, len3, outOfRange>>
    /\ MainUnchanged

InitSchedMain ==
    /\ prog = OmpSchedule
    /\ mainAt = "init1"
    /\ section = "behaviour"
    /\ loopI = 0
    /\ j = 0
    /\ len1 = 0
    /\ len2 = 0
    /\ len3 = 0
    /\ outOfRange = FALSE
    /\ out = <<>>
    /\ SchedIdle
    /\ MpiIdle
    /\ OmpIdle
    /\ MatIdle
    /\ RunIdle

NextSchedMain ==
    \/ InitVectorStep
    \/ RunScheduleCall
    \/ StartSweep
    \/ SweepBody
    \/ MeasureStatic
    \/ MeasureDynamic
    \/ NextSize
    \/ MainReturn

SpecSchedMain == InitSchedMain /\ [][NextSchedMain]_vars

(***************************************************************************)
(* openmp_partc_matrix: one call of multiplyOuterParallel,                 *)
(* multiplyInnerParallel or multiplyCollapseParallel.  The statement       *)
(* resultMatrix[i][j] += matrix1[i][k] * matrix2[k][j] is two steps, the   *)
(* read of the cell and the store into it, so that a thread may be         *)
(* overtaken between them.  The loops carry no schedule clause: the        *)
(* runtime cuts them as it cuts schedule(static).                          *)
(***************************************************************************)
MaxDim == 2          \* largest matrix dimension

OmpMatrix == "openmp_partc_matrix"

Outer == "multiplyOuterParallel"
Inner == "multiplyInnerParallel"
Collapse == "multiplyCollapseParallel"
Strategies == {Outer, Inner, Collapse}

kMinValue == 1
kMaxValue == 100
kMatNumThreads == 4

(* Team sizes of the calls: the small ones and kNumThreadsOptions' 1 and 4. *)
MatTeams == (1 .. MaxTeam) \cup {1, kMatNumThreads}

(* Seeds of the matrices' contents. *)
Seeds == {0, 97}

(* initMatrix: every element is a value of dist(kMinValue, kMaxValue). *)
initMatrix(seed, n) ==
    [r \in 0 .. (n - 1) |->
        [c \in 0 .. (n - 1) |-> kMinValue + ((seed + r * n + c) % kMaxValue)]]

(* Matrix(size, std::vector<int>(size)): all elements zero. *)
ZeroMatrix(n) == [r \in 0 .. (n - 1) |-> [c \in 0 .. (n - 1) |-> 0]]

MatSize == Cardinality(DOMAIN matrix1)

(* Iterations of the loop the team shares. *)
LoopCount(strategy, n) == IF strategy = Collapse THEN n * n ELSE n

(* The cell a thread works on: row and column of resultMatrix. *)
RowOf(strategy, n, idx, row) ==
    CASE strategy = Outer -> idx
      [] strategy = Inner -> row
      [] OTHER -> idx \div n

(* Mutant: the column index is not the thread's own: every thread works on column 0. *)
ColOfShared(strategy, n, idx, col) == 0

ColOf(strategy, n, idx, col) ==
    CASE strategy = Outer -> col
      [] strategy = Inner -> idx
      [] OTHER -> idx % n

(* Mutant: the product is assigned, not added. *)
AddedAssigned(old, a, b) == a * b

(* resultMatrix[i][j] + matrix1[i][k] * matrix2[k][j] *)
Added(old, a, b) == old + a * b

MatUnchanged == UNCHANGED <<prog, out, mpiVars, ompVars, mainVars, runVars, call, numProcs,
                            staticKind, vect1, vect2, vect3, nextChunk, crit, rows,
                            matrix1, matrix2>>

(* #pragma omp parallel for num_threads(numThreads): the team starts. *)
MatFork ==
    /\ fpc = "entry"
    /\ call.fn = Inner => rowI < MatSize
    /\ wpc' = [t \in 0 .. (call.numThreads - 1) |-> "take"]
    /\ myChunk' = [t \in 0 .. (call.numThreads - 1) |-> -1]
    /\ cur' = [t \in 0 .. (call.numThreads - 1) |-> -1]
    /\ tj' = [t \in 0 .. (call.numThreads - 1) |-> 0]
    /\ tk' = [t \in 0 .. (call.numThreads - 1) |-> 0]
    /\ sum' = [t \in 0 .. (call.numThreads - 1) |-> 0]
    /\ fpc' = "loop"
    /\ UNCHANGED <<resultMatrix, rowI, accessedBy>>
    /\ MatUnchanged

(* The runtime gives thread t its next iteration of the shared loop, or none. *)
MatTake(t) ==
    /\ fpc = "loop"
    /\ t \in Team
    /\ wpc[t] = "take"
    /\ LET n == LoopCount(call.fn, MatSize)
           team == Cardinality(Team)
           more == myChunk[t] >= 0
                   /\ cur[t] + 1 < ChunkHi(call, staticKind, n, team, myChunk[t])
           k == NextChunkOf(call, team, t, myChunk[t], nextChunk)
           fresh == k < NumChunks(call, n, team)
                    /\ ChunkLo(call, staticKind, n, team, k)
                         < ChunkHi(call, staticKind, n, team, k)
       IN IF more
          THEN /\ cur' = [cur EXCEPT ![t] = @ + 1]
               /\ wpc' = [wpc EXCEPT ![t] = "read"]
               /\ UNCHANGED myChunk
          ELSE IF fresh
          THEN /\ myChunk' = [myChunk EXCEPT ![t] = k]
               /\ cur' = [cur EXCEPT ![t] = ChunkLo(call, staticKind, n, team, k)]
               /\ wpc' = [wpc EXCEPT ![t] = "read"]
          ELSE /\ wpc' = [wpc EXCEPT ![t] = "barrier"]
               /\ UNCHANGED <<myChunk, cur>>
    /\ tj' = [tj EXCEPT ![t] = 0]
    /\ tk' = [tk EXCEPT ![t] = 0]
    /\ UNCHANGED <<resultMatrix, rowI, fpc, sum, accessedBy>>
    /\ MatUnchanged

(* The right-hand side of +=: the cell is read and the product added. *)
MatRead(t) ==
    /\ fpc = "loop"
    /\ t \in Team
    /\ wpc[t] = "read"
    /\ LET r == RowOf(call.fn, MatSize, cur[t], rowI)
           c == ColOf(call.fn, MatSize, cur[t], tj[t])
       IN /\ sum' = [sum EXCEPT ![t] =
                        Added(resultMatrix[r][c], matrix1[r][tk[t]], matrix2[tk[t]][c])]
          /\ accessedBy' = [accessedBy EXCEPT ![r][c] = @ \cup {t}]
    /\ wpc' = [wpc EXCEPT ![t] = "write"]
    /\ UNCHANGED <<resultMatrix, rowI, fpc, myChunk, cur, tj, tk>>
    /\ MatUnchanged

(* The store of +=; ++k, and ++j when the k-loop is over. *)
MatWrite(t) ==
    /\ fpc = "loop"
    /\ t \in Team
    /\ wpc[t] = "write"
    /\ LET r == RowOf(call.fn, MatSize, cur[t], rowI)
           c == ColOf(call.fn, MatSize, cur[t], tj[t])
       IN /\ resultMatrix' = [resultMatrix EXCEPT ![r][c] = sum[t]]
          /\ accessedBy' = [accessedBy EXCEPT ![r][c] = @ \cup {t}]
    /\ IF tk[t] + 1 < MatSize
       THEN /\ tk' = [tk EXCEPT ![t] = @ + 1]
            /\ wpc' = [wpc EXCEPT ![t] = "read"]
            /\ UNCHANGED tj
       ELSE IF call.fn = Outer /\ tj[t] + 1 < MatSize
       THEN /\ tj' = [tj EXCEPT ![t] = @ + 1]
            /\ tk' = [tk EXCEPT ![t] = 0]
            /\ wpc' = [wpc EXCEPT ![t] = "read"]
       ELSE /\ wpc' = [wpc EXCEPT ![t] = "take"]
            /\ UNCHANGED <<tj, tk>>
    /\ UNCHANGED <<rowI, fpc, myChunk, cur, sum>>
    /\ MatUnchanged

(* Mutant: the parallel for ends as soon as one thread is through. *)
MatJoinEarly ==
    /\ fpc = "loop"
    /\ \E t \in Team : wpc[t] = "barrier"
    /\ IF call.fn = Inner
       THEN fpc' = "entry" /\ rowI' = rowI + 1
       ELSE fpc' = "returned" /\ UNCHANGED rowI
    /\ UNCHANGED <<resultMatrix, wpc, myChunk, cur, tj, tk, sum, accessedBy>>
    /\ MatUnchanged

(* The implicit barrier at the end of the parallel for. *)
MatJoin ==
    /\ fpc = "loop"
    /\ \A t \in Team : wpc[t] = "barrier"
    /\ IF call.fn = Inner
       THEN fpc' = "entry" /\ rowI' = rowI + 1
       ELSE fpc' = "returned" /\ UNCHANGED rowI
    /\ UNCHANGED <<resultMatrix, wpc, myChunk, cur, tj, tk, sum, accessedBy>>
    /\ MatUnchanged

(* multiplyInnerParallel: i == size, the function returns. *)
MatReturn ==
    /\ fpc = "entry"
    /\ call.fn = Inner
    /\ rowI >= MatSize
    /\ fpc' = "returned"
    /\ UNCHANGED <<resultMatrix, rowI, wpc, myChunk, cur, tj, tk, sum, accessedBy>>
    /\ MatUnchanged

InitMatrix ==
    /\ prog = OmpMatrix
    /\ \E strategy \in Strategies, threads \in MatTeams :
          call = Call(strategy, "static", threads, 0, FALSE)
    /\ \E n \in 1 .. MaxDim, s1 \in Seeds, s2 \in Seeds :
          /\ matrix1 = initMatrix(s1, n)
          /\ matrix2 = initMatrix(s2, n)
          /\ resultMatrix = ZeroMatrix(n)
          /\ accessedBy = [r \in 0 .. (n - 1) |-> [c \in 0 .. (n - 1) |-> {}]]
    /\ staticKind \in {"balanced", "greedy"}
    /\ numProcs = 1
    /\ vect1 = <<>>
    /\ vect2 = <<>>
    /\ vect3 = <<>>
    /\ fpc = "entry"
    /\ rowI = 0
    /\ wpc = <<>>
    /\ myChunk = <<>>
    /\ cur = <<>>
    /\ tj = <<>>
    /\ tk = <<>>
    /\ sum = <<>>
    /\ nextChunk = 0
    /\ crit = Unlocked
    /\ rows = <<>>
    /\ out = <<>>
    /\ MpiIdle
    /\ OmpIdle
    /\ MainIdle
    /\ RunIdle

MatThreadIds == 0 .. (kMatNumThreads + MaxTeam - 1)

NextMatrix ==
    \/ MatFork
    \/ MatJoin
    \/ MatReturn
    \/ \E t \in MatThreadIds : MatTake(t) \/ MatRead(t) \/ MatWrite(t)

SpecMatrix == InitMatrix /\ [][NextMatrix]_vars

(***************************************************************************)
(* openmp_partc_matrix: main().  A result matrix is followed by its        *)
(* dimension and by how many times the product of matrix1 and matrix2 has  *)
(* been added into it (0: every element is zero); a multiply call is one   *)
(* step that adds the product once to every element.                       *)
(***************************************************************************)
kMatrixSizeOptions == <<50, 500>>
kNumThreadsOptions == <<1, 4, 8, 16>>
kTestRuns == 10

(* Mutant: a result matrix of the right dimension is kept, not replaced. *)
FreshMatrixKept(old, size) ==
    IF old.size = size THEN old ELSE [size |-> size, products |-> 0]

(* Matrix result(kMatrixSize, std::vector<int>(kMatrixSize)): all zero. *)
FreshMatrix(old, size) == [size |-> size, products |-> 0]

(* for i, j, k: resultMatrix[i][j] += matrix1[i][k] * matrix2[k][j] *)
Multiplied(result) == [result EXCEPT !.products = @ + 1]

kMatrixSize == kMatrixSizeOptions[loopI + 1]
kNumThreadsNow == kNumThreadsOptions[threadIdx]

RunUnchanged == UNCHANGED <<prog, out, mpiVars, ompVars, matVars, numProcs, staticKind,
                            vect1, vect2, vect3, fpc, wpc, myChunk, cur, nextChunk,
                            crit, rows, section, len1, len2, len3, outOfRange>>

(* i < kMatrixSizeOptions.size(): matrices allocated and initialised. *)
NextMatrixSize ==
    /\ mainAt = "size"
    /\ loopI < Len(kMatrixSizeOptions)
    /\ threadIdx' = 1
    /\ mainAt' = "threads"
    /\ UNCHANGED <<call, loopI, j, outerResult, innerResult, collapseResult>>
    /\ RunUnchanged

(* for (const int kNumThreads : kNumThreadsOptions): the next thread count. *)
NextThreadCount ==
    /\ mainAt = "threads"
    /\ threadIdx <= Len(kNumThreadsOptions)
    /\ j' = 0
    /\ mainAt' = "runs"
    /\ UNCHANGED <<call, loopI, threadIdx, outerResult, innerResult, collapseResult>>
    /\ RunUnchanged

(* All thread counts done for this size: ++i. *)
SizeDone ==
    /\ mainAt = "threads"
    /\ threadIdx > Len(kNumThreadsOptions)
    /\ loopI' = loopI + 1
    /\ mainAt' = "size"
    /\ UNCHANGED <<call, j, threadIdx, outerResult, innerResult, collapseResult>>
    /\ RunUnchanged

(* j < kTestRuns: the three result matrices of this run are constructed. *)
AllocateResults ==
    /\ mainAt = "runs"
    /\ j < kTestRuns
    /\ outerResult' = FreshMatrix(outerResult, kMatrixSize)
    /\ innerResult' = FreshMatrix(innerResult, kMatrixSize)
    /\ collapseResult' = FreshMatrix(collapseResult, kMatrixSize)
    /\ mainAt' = "outer"
    /\ UNCHANGED <<call, loopI, j, threadIdx>>
    /\ RunUnchanged

(* outerTotalTime += multiplyOuterParallel(matrix1, matrix2, outerResult, ..) *)
CallOuter ==
    /\ mainAt = "outer"
    /\ call' = Call(Outer, "static", kNumThreadsNow, 0, FALSE)
    /\ outerResult' = Multiplied(outerResult)
    /\ mainAt' = "inner"
    /\ UNCHANGED <<loopI, j, threadIdx, innerResult, collapseResult>>
    /\ RunUnchanged

(* innerTotalTime += multiplyInnerParallel(matrix1, matrix2, innerResult, ..) *)
CallInner ==
    /\ mainAt = "inner"
    /\ call' = Call(Inner, "static", kNumThreadsNow, 0, FALSE)
    /\ innerResult' = Multiplied(innerResult)
    /\ mainAt' = "collapse"
    /\ UNCHANGED <<loopI, j, threadIdx, outerResult, collapseResult>>
    /\ RunUnchanged

(* collapseTotalTime += multiplyCollapseParallel(.., collapseResult, ..); ++j *)
CallCollapse ==
    /\ mainAt = "collapse"
    /\ call' = Call(Collapse, "static", kNumThreadsNow, 0, FALSE)
    /\ collapseResult' = Multiplied(collapseResult)
    /\ j' = j + 1
    /\ mainAt' = "runs"
    /\ UNCHANGED <<loopI, threadIdx, outerResult, innerResult>>
    /\ RunUnchanged

(* j == kTestRuns: the row of this thread count is printed. *)
RunsDone ==
    /\ mainAt = "runs"
    /\ j >= kTestRuns
    /\ threadIdx' = threadIdx + 1
    /\ mainAt' = "threads"
    /\ UNCHANGED <<call, loopI, j, outerResult, innerResult, collapseResult>>
    /\ RunUnchanged

(* i == kMatrixSizeOptions.size(): return 0. *)
MatrixMainReturn ==
    /\ mainAt = "size"
    /\ loopI >= Len(kMatrixSizeOptions)
    /\ mainAt' = "done"
    /\ UNCHANGED <<call, loopI, j, threadIdx, outerResult, innerResult, collapseResult>>
    /\ RunUnchanged

InitMatrixMain ==
    /\ prog = OmpMatrix
    /\ mainAt = "size"
    /\ section = "none"
    /\ loopI = 0
    /\ j = 0
    /\ len1 = 0
    /\ len2 = 0
    /\ len3 = 0
    /\ outOfRange = FALSE
    /\ out = <<>>
    /\ RunIdle
    /\ SchedIdle
    /\ MpiIdle
    /\ OmpIdle
    /\ MatIdle

NextMatrixMain ==
    \/ NextMatrixSize
    \/ NextThreadCount
    \/ SizeDone
    \/ AllocateResults
    \/ CallOuter
    \/ CallInner
    \/ CallCollapse
    \/ RunsDone
    \/ MatrixMainReturn

SpecMatrixMain == InitMatrixMain /\ [][NextMatrixMain]_vars

(***************************************************************************)
(* Properties of the MPI programs.                                         *)
(***************************************************************************)
AllFinalized == \A r \in Ranks : pc[r] = "done"
MasterPastLoop == pc[kMasterRank] \in {"summary", "finalize", "done"}
ValidLaunch == ~BadCount(prog, worldSize)

(* C1: mpi_partc_tag launched with at least two processes runs to          *)
(* completion: as long as some process has not returned from MPI_Finalize, *)
(* some process can still take a step (no process waits forever).          *)
C1_TagRunsToCompletion ==
    (prog = MpiTag /\ worldSize >= kMinProcesses)
        => (AllFinalized \/ ENABLED NextMPI)

(* C2: mpi_partb_slaves1 and mpi_partb_slaves2 launched with at least two  *)
(* processes eventually reach the state where every send has completed,    *)
(* the master has done exactly worldSize-1 receives and every process has  *)
(* finalized, whether MPI_Send buffers or waits for the matching receive.  *)
C2_SlavesRunToCompletion ==
    <>[]((prog \in SlavePrograms /\ worldSize >= kMinProcesses)
            => (AllFinalized /\ net = {} /\ i = worldSize
                /\ mpiCalls = 2 * (worldSize - 1)))

C2_Witness ==
    /\ prog \in SlavePrograms
    /\ worldSize >= 3
    /\ sendMode = "sync"
    /\ AllFinalized
    /\ i = worldSize

(* C3: in mpi_partb_slaves1 the master never prints a rank twice or a rank *)
(* that is no slave, and once its loop is over it has printed exactly one  *)
(* 'Message received from process r' line for every r in 1..worldSize-1.   *)
C3_OneLinePerSlave ==
    (prog = MpiSlaves1 /\ worldSize >= kMinProcesses) =>
        /\ \A l \in Printed("received") :
              l.rank \in 1 .. (worldSize - 1) /\ out[l] = 1
        /\ MasterPastLoop =>
              {l.rank : l \in Printed("received")} = 1 .. (worldSize - 1)

C3_Witness ==
    /\ prog = MpiSlaves1
    /\ worldSize >= 3
    /\ MasterPastLoop
    /\ Cardinality(Printed("received")) = worldSize - 1

(* C4: in mpi_parta_helloworld1 with worldSize # 4 the master aborts with  *)
(* status 1 and neither the banner nor any 'Hello world' line is printed.  *)
C4_Hello1AbortsBeforeWork ==
    (prog = MpiHello1 /\ worldSize # kRequiredProcesses) =>
        /\ Printed("banner") = {}
        /\ Printed("hello") = {}
        /\ pc[kMasterRank] \in {"check", "aborted"}
        /\ pc[kMasterRank] = "aborted" => (aborted /\ abortStatus = 1)

C4_Witness ==
    /\ prog = MpiHello1
    /\ worldSize > kRequiredProcesses
    /\ aborted /\ abortStatus = 1
    /\ \E r \in Ranks : pc[r] = "inbarrier"
    /\ \E r \in Ranks : pc[r] = "killed"

(* C5: in mpi_partb_slaves1, mpi_partb_slaves2 and mpi_partc_tag with      *)
(* worldSize < 2 the master aborts with status 1; no configuration output  *)
(* is printed and no MPI_Send or MPI_Recv is ever issued.                  *)
C5_SlavesAbortBeforeWork ==
    (prog \in SlavePrograms \cup {MpiTag} /\ worldSize < 2) =>
        /\ Printed("banner") = {}
        /\ mpiCalls = 0
        /\ net = {}
        /\ pc[kMasterRank] \in {"check", "aborted"}
        /\ pc[kMasterRank] = "aborted" => (aborted /\ abortStatus = 1)

C5_Witness ==
    /\ prog = MpiTag
    /\ worldSize < 2
    /\ pc[kMasterRank] = "aborted"
    /\ abortStatus = 1
    /\ Count(out, ErrorLine) = 1

(* C6: in the MPI hello-world programs every process prints its own 'Hello *)
(* world' line exactly once, before it finalizes; when all have finalized  *)
(* there is one line per rank 0..worldSize-1 (four for helloworld1).       *)
C6_OneHelloPerProcess ==
    (prog \in BarrierPrograms /\ ValidLaunch) =>
        /\ \A l \in Printed("hello") : l.rank \in Ranks /\ out[l] = 1
        /\ \A r \in Ranks :
              (pc[r] \in {"finalize", "done"}) <=> (Count(out, HelloLine(r)) = 1)
        /\ AllFinalized =>
              /\ Cardinality(Printed("hello")) = worldSize
              /\ prog = MpiHello1 => Cardinality(Printed("hello")) = 4

C6_Witness ==
    /\ prog = MpiHello1
    /\ worldSize = 4
    /\ AllFinalized
    /\ Cardinality(Printed("hello")) = 4

(***************************************************************************)
(* Properties of the OpenMP hello-world programs.                          *)
(***************************************************************************)
InCritical == {t \in DOMAIN tpc : tpc[t] \in {"print", "unlock"}}
Bump(n) == IF n < MaxCount THEN n + 1 ELSE n

(* C7: in the OpenMP hello-world programs at most one thread of the team   *)
(* is between acquiring and releasing the mutex, and that thread is the    *)
(* mutex's owner.                                                          *)
C7_MutualExclusion ==
    (prog \in OmpPrograms) =>
        /\ Cardinality(InCritical) <= 1
        /\ \A t \in InCritical : mtx = t

C7_Witness ==
    /\ prog = OmpHello2
    /\ \E t, u \in DOMAIN tpc : tpc[t] = "print" /\ tpc[u] = "lock"

(* C8: when helloworld1 (n = 10) or helloworld3 (n = the accepted input)   *)
(* has finished, the output holds exactly n 'Thread t: Hello world' lines, *)
(* one for each thread id 0..n-1; no id is ever printed twice.             *)
C8_OneLinePerThread ==
    (prog \in {OmpHello1, OmpHello3}) =>
        /\ \A l \in Printed("thread_hello") : out[l] = 1
        /\ mpc = "done" =>
              {l.rank : l \in Printed("thread_hello")} = 0 .. (TeamSize(prog) - 1)

C8_Witness ==
    /\ prog = OmpHello3
    /\ mpc = "done"
    /\ numThreads = 3
    /\ Cardinality(Printed("thread_hello")) = 3

(* C9: in helloworld3 an entry that fails to parse or is <= 0 is answered  *)
(* by the invalid-input message and a new prompt, and the parallel region  *)
(* is entered only with an accepted numThreads >= 1 as the team size.      *)
C9_RejectStep ==
    (prog = OmpHello3 /\ mpc = "check" /\ (failbit \/ numThreads <= 0)) =>
        /\ mpc' = "prompt"
        /\ hasError'
        /\ tpc' = <<>>
        /\ Count(out', InvalidLine) = Bump(Count(out, InvalidLine))

C9_NewPrompt ==
    (prog = OmpHello3 /\ mpc = "prompt") =>
        /\ mpc' = "read"
        /\ Count(out', PromptLine) = Bump(Count(out, PromptLine))

C9_TeamOnlyAfterAccept ==
    (prog = OmpHello3 /\ mpc \in {"fork", "join", "done"}) =>
        /\ ~hasError
        /\ ~failbit
        /\ numThreads >= 1
        /\ mpc # "fork" => DOMAIN tpc = 0 .. (numThreads - 1)

C9_PromptLoop ==
    /\ [][C9_RejectStep /\ C9_NewPrompt]_vars
    /\ [](C9_TeamOnlyAfterAccept /\ (prog = OmpHello3 /\ mpc \notin {"join", "done"}
                                        => tpc = <<>>))

C9_Witness ==
    /\ prog = OmpHello3
    /\ Count(out, InvalidLine) >= 1
    /\ mpc = "join"
    /\ numThreads = 2

(* C10: helloworld3 terminates for every finite input stream, also when    *)
(* the input ends without a valid positive integer.                        *)
C10_Hello3Terminates == <>(prog = OmpHello3 => mpc = "done")

(***************************************************************************)
(* Further properties of the MPI programs.                                 *)
(***************************************************************************)
Slaves == Ranks \ {kMasterRank}

(* C14: in mpi_partc_tag a slave's receive for tag 101 is never completed  *)
(* by a message sent with tag 100: every 'Received from master' line shows *)
(* the tag the slave waited on, and a slave gets past MPI_Recv only with   *)
(* such a line.                                                            *)
C14_NoTagMismatchReceived ==
    (prog = MpiTag) =>
        /\ \A l \in Printed("slave_received") : l.tag = kSlaveWaitTag
        /\ \A r \in Slaves :
              pc[r] \in {"finalize", "done"} =>
                  \E l \in Printed("slave_received") : l.rank = r /\ l.tag = 101

C14_Witness ==
    /\ prog = MpiTag
    /\ \E r \in Slaves :
          /\ pc[r] = "recvwait"
          /\ \E m \in net : m.dst = r /\ m.src = kMasterRank /\ m.tag = 100

(* C15: in mpi_partb_slaves2 every line the master prints shows a sender   *)
(* rank together with that sender's own message: 1 with John, 2 with Mary, *)
(* 3 with Susan, 4 and above with unnamed process.                         *)
C15_RankPairedWithOwnMessage ==
    (prog = MpiSlaves2) =>
        \A l \in Printed("received") :
            /\ l.rank \in Slaves
            /\ l.rank = 1 => l.text = "Hello, I am John"
            /\ l.rank = 2 => l.text = "Hello, I am Mary"
            /\ l.rank = 3 => l.text = "Hello, I am Susan"
            /\ l.rank >= 4 => l.text = "Hello, I am unnamed process"

C15_Witness ==
    /\ prog = MpiSlaves2
    /\ MasterPastLoop
    /\ \E l \in Printed("received") : l.rank = 4
    /\ \E l \in Printed("received") : l.rank = 1

(* C16: in mpi_partb_slaves1 and mpi_partb_slaves2 the 'All messages       *)
(* received' line is printed only when the master has completed            *)
(* worldSize-1 receives: every slave has sent and nothing is undelivered.  *)
C16_SummaryAfterAllReceives ==
    (prog \in SlavePrograms /\ Count(out, AllReceivedLine) >= 1) =>
        /\ i = worldSize
        /\ Cardinality(Printed("received")) = worldSize - 1
        /\ net = {}
        /\ \A r \in Slaves : pc[r] \in {"sendwait", "finalize", "done"}

C16_Witness ==
    /\ prog \in SlavePrograms
    /\ worldSize >= 3
    /\ Count(out, AllReceivedLine) = 1
    /\ \E r \in Slaves : pc[r] = "sendwait"

(* C17: in the MPI hello-world programs a 'Hello world' line is printed    *)
(* only after the master's banner and after every process has entered the  *)
(* barrier.                                                                *)
C17_BarrierOrdersOutput ==
    (prog \in BarrierPrograms /\ Printed("hello") # {}) =>
        /\ Count(out, BannerLine) = 1
        /\ arrived = Ranks
        /\ \A r \in Ranks : pc[r] \in {"inbarrier", "hello", "finalize", "done"}

C17_Witness ==
    /\ prog = MpiHello2
    /\ worldSize >= 3
    /\ Printed("hello") # {}
    /\ \E r \in Ranks : pc[r] = "inbarrier"

(***************************************************************************)
(* Further properties of the OpenMP hello-world programs.                  *)
(***************************************************************************)
TeamFinished ==
    /\ mpc = "done"
    /\ mtx = Unlocked
    /\ \A t \in DOMAIN tpc : tpc[t] = "done"
    /\ \A t \in DOMAIN tpc : Count(out, ThreadHelloLine(t)) = 1

(* C18: once the parallel region of an OpenMP hello-world program is       *)
(* entered, every thread of the team eventually acquires the mutex, prints *)
(* and releases it, and the program terminates; the mutex is only ever     *)
(* released by the thread that acquired it.  helloworld1 and helloworld2   *)
(* enter the region at once.                                               *)
C18_TeamTerminates ==
    /\ [](mpc = "join" => <>TeamFinished)
    /\ <>(prog \in {OmpHello1, OmpHello2} => TeamFinished)
    /\ [][mtx # Unlocked => (mtx' = mtx \/ (mtx' = Unlocked /\ tpc'[mtx] = "done"))]_vars

C18_Witness ==
    /\ prog = OmpHello3
    /\ TeamFinished
    /\ Cardinality(DOMAIN tpc) = 3

(***************************************************************************)
(* Properties of openmp_partb_schedule.                                    *)
(***************************************************************************)
LoopReturned == fpc = "returned" /\ call.scheduleType \in {"static", "dynamic"}

(* The sequential loop: for (i = 0; i < kSize; ++i) v3[i] = v1[i] + v2[i]. *)
SequentialSum(v1, v2) == [k \in DOMAIN v1 |-> v1[k] + v2[k]]

RowsOf(k) == {r \in DOMAIN rows : r.iter = k}
RowsBy(t) == {r \in DOMAIN rows : r.tid = t}

(* C11: after a call of runSchedule or measureSchedule with scheduleType   *)
(* "static" or "dynamic", whatever the chunk size, the thread count and    *)
(* the interleaving, vect3[i] = vect1[i] + vect2[i] for every i, which is  *)
(* the vector the sequential loop computes.                                *)
C11_SumScheduleIndependent ==
    LoopReturned =>
        /\ \A k \in DOMAIN vect1 : vect3[k] = vect1[k] + vect2[k]
        /\ vect3 = SequentialSum(vect1, vect2)

C11_Witness ==
    /\ LoopReturned
    /\ call.fn = "measureSchedule"
    /\ call.scheduleType = "dynamic"
    /\ Cardinality(Team) = 2
    /\ VectSize(vect1) = 3
    /\ vect3[2] = kValue1 + 2 + kValue2

(* C19: in a runSchedule loop every iteration index is executed exactly    *)
(* once, by one thread: no row is ever printed twice, and when the call    *)
(* returns there are exactly kSize rows, one per iteration, each showing   *)
(* vect1[i] + vect2[i] as its result.                                      *)
C19_EachIterationOnce ==
    /\ \A r \in DOMAIN rows :
          /\ r.iter \in DOMAIN vect1
          /\ rows[r] = 1
          /\ RowsOf(r.iter) = {r}
          /\ r.result = vect1[r.iter] + vect2[r.iter]
    /\ (LoopReturned /\ call.fn = "runSchedule") =>
          /\ \A k \in DOMAIN vect1 : Cardinality(RowsOf(k)) = 1
          /\ Cardinality(DOMAIN rows) = kSizeOf(vect1)

C19_Witness ==
    /\ LoopReturned
    /\ call = Call("runSchedule", "static", kSchedNumThreads, kStaticChunkSize, FALSE)
    /\ Cardinality(DOMAIN rows) = kSize
    /\ \A r \in DOMAIN rows : r.result = kValue1 + kValue2

MainStaticDefault == Call("runSchedule", "static", kSchedNumThreads, 0, FALSE)

Contiguous(S) == \A a \in S, b \in S : \A k \in a .. b : k \in S

(* C20: schedule(static) without a chunk size gives each thread one chunk  *)
(* of consecutive iterations; for main's 12 iterations on 4 threads each   *)
(* chunk has three iterations and thread t executes 3t, 3t+1 and 3t+2, in  *)
(* every interleaving.                                                     *)
C20_StaticDefaultBlocks ==
    /\ (LoopReturned /\ call.fn = "runSchedule" /\ OneChunkEach(call)) =>
          \A t \in Team : Contiguous({r.iter : r \in RowsBy(t)})
    /\ (call = MainStaticDefault /\ VectSize(vect1) = kSize) =>
          /\ \A r \in DOMAIN rows : r.tid = r.iter \div 3
          /\ LoopReturned =>
                \A t \in Team :
                    {r.iter : r \in RowsBy(t)} = {3 * t, 3 * t + 1, 3 * t + 2}

C20_Witness ==
    /\ LoopReturned
    /\ call = MainStaticDefault
    /\ staticKind = "greedy"
    /\ Cardinality(DOMAIN rows) = kSize
    /\ {r.iter : r \in RowsBy(3)} = {9, 10, 11}

(* The size the vectors are configured to at this point of main(). *)
ConfiguredSize == IF section = "behaviour" THEN kSize ELSE loopI

(* main() is about to call runSchedule or measureSchedule. *)
AtCall ==
    \/ mainAt = "run" /\ j < Len(BehaviourCalls)
    \/ mainAt = "repeat" /\ j < kTestCount
    \/ mainAt = "dynamic"

(* C13: at every call of runSchedule or measureSchedule made by main,      *)
(* vect1, vect2 and vect3 have the same length, the configured size (12    *)
(* in the behaviour section, the sweep's current size afterwards), so no   *)
(* call indexes a vector beyond its end.                                   *)
C13_LengthsEqualConfiguredSize ==
    /\ AtCall => /\ len1 = ConfiguredSize
                 /\ len2 = ConfiguredSize
                 /\ len3 = ConfiguredSize
    /\ ~outOfRange

C13_Witness ==
    /\ mainAt = "dynamic"
    /\ section = "imbalanced"
    /\ j = kTestCount - 1
    /\ len3 = kMaxSize
    /\ call = Call("measureSchedule", "static", kSchedNumThreads, 0, FALSE)

MainStaticChunked ==
    Call("runSchedule", "static", kSchedNumThreads, kStaticChunkSize, FALSE)

(* C21: schedule(static, chunkSize) is block-cyclic; in main's call with   *)
(* chunk size 2 on 4 threads over 12 iterations, iteration i is executed   *)
(* by thread (i div 2) mod 4 in every execution, so that threads 0 and 1   *)
(* execute four iterations each and threads 2 and 3 two each.              *)
C21_StaticChunkedBlockCyclic ==
    /\ (call.fn = "runSchedule" /\ call.scheduleType = "static" /\ call.chunkSize > 0) =>
          \A r \in DOMAIN rows :
              r.tid = (r.iter \div call.chunkSize) % Cardinality(Team)
    /\ (call = MainStaticChunked /\ VectSize(vect1) = kSize) =>
          /\ \A r \in DOMAIN rows : r.tid = (r.iter \div 2) % 4
          /\ LoopReturned =>
                /\ \A t \in {0, 1} : Cardinality(RowsBy(t)) = 4
                /\ \A t \in {2, 3} : Cardinality(RowsBy(t)) = 2

C21_Witness ==
    /\ LoopReturned
    /\ call = MainStaticChunked
    /\ {r.iter : r \in RowsBy(1)} = {2, 3, 10, 11}
    /\ {r.iter : r \in RowsBy(3)} = {6, 7}

DynamicRun == call.fn = "runSchedule" /\ call.scheduleType = "dynamic"

(* Thread t has printed the row of every iteration of chunk k. *)
DoneBy(t, k) ==
    \A it \in (k * ChunkLen(call)) .. (Min((k + 1) * ChunkLen(call), kSizeOf(vect1)) - 1) :
        \E r \in RowsBy(t) : r.iter = it

(* The rows of one chunk of schedule(dynamic) carry one thread id, and a   *)
(* thread's iteration lies in the chunk it holds.                          *)
ChunksUndivided ==
    DynamicRun =>
        /\ \A r1 \in DOMAIN rows, r2 \in DOMAIN rows :
              (r1.iter \div ChunkLen(call) = r2.iter \div ChunkLen(call)) => r1.tid = r2.tid
        /\ \A t \in Team :
              myChunk[t] >= 0 => cur[t] \div ChunkLen(call) = myChunk[t]
        /\ call.chunkSize = 0 => \A t \in Team : myChunk[t] >= 0 => cur[t] = myChunk[t]
        /\ call.chunkSize = kDynamicChunkSize =>
              \A r \in DOMAIN rows :
                  \A r2 \in RowsOf(2 * (r.iter \div 2)) \cup RowsOf(2 * (r.iter \div 2) + 1) :
                      r2.tid = r.tid

(* A thread gets a chunk only from the shared counter, and only when the   *)
(* chunk it held is finished.                                              *)
ChunkOnDemand ==
    DynamicRun =>
        \A t \in Team :
            myChunk'[t] # myChunk[t] =>
                /\ myChunk[t] >= 0 => DoneBy(t, myChunk[t])
                /\ myChunk'[t] = nextChunk
                /\ nextChunk' = nextChunk + 1
                /\ cur'[t] = nextChunk * ChunkLen(call)

(* C22: schedule(dynamic) hands out chunks of the given size on demand:    *)
(* with chunk size 2 the iterations 2c and 2c+1 of a chunk are executed    *)
(* by one thread, a thread takes its next chunk only when its current one  *)
(* is finished, whichever thread asks gets the next chunk, and without a   *)
(* chunk size a chunk is one iteration.                                    *)
C22_DynamicChunksOnDemand == [] ChunksUndivided /\ [][ChunkOnDemand]_vars

(* The chunks went to the threads in the reverse of their order. *)
C22_Witness ==
    /\ LoopReturned
    /\ DynamicRun
    /\ call.chunkSize = kDynamicChunkSize
    /\ VectSize(vect1) = 4
    /\ {r.iter : r \in RowsBy(1)} = {0, 1}
    /\ {r.iter : r \in RowsBy(0)} = {2, 3}

(* Threads executing printTableRow. *)
InPrintTableRow == {t \in Team : wpc[t] = "row"}

(* Thread t has stored vect3[i] and not yet printed its row. *)
StoredNotPrinted(t) == wpc[t] \in {"critical", "row"}

(* Thread u stores into vect3 in this step. *)
Stores(u) == wpc[u] = "body" /\ wpc'[u] # "body"

OnePrinter ==
    prog = OmpSchedule =>
        /\ Cardinality(InPrintTableRow) <= 1
        /\ \A t \in Team : (wpc[t] = "row") <=> (crit = t)

PrintsOwnStore ==
    prog = OmpSchedule =>
        \A t \in Team :
            /\ StoredNotPrinted(t) =>
                  /\ vect3'[cur[t]] = vect3[cur[t]]
                  /\ \A u \in Team \ {t} : Stores(u) => cur[u] # cur[t]
            /\ (wpc[t] = "row" /\ wpc'[t] # "row") =>
                  /\ Count(rows', [tid |-> t, iter |-> cur[t],
                                   result |-> vect1[cur[t]] + vect2[cur[t]]])
                       = Count(rows, [tid |-> t, iter |-> cur[t],
                                      result |-> vect1[cur[t]] + vect2[cur[t]]]) + 1
                  /\ crit' = Unlocked

(* C23: runSchedule prints its rows inside a critical region: at most one  *)
(* thread is in printTableRow at any time, and the value a thread prints   *)
(* for iteration i is the one it has just stored in vect3[i]; no other     *)
(* thread stores into vect3[i] between that store and the print.           *)
C23_RowsUnderCritical == [] OnePrinter /\ [][PrintsOwnStore]_vars

C23_Witness ==
    /\ prog = OmpSchedule
    /\ DynamicRun
    /\ Cardinality(Team) = 3
    /\ wpc[0] = "row"
    /\ wpc[1] = "critical"
    /\ wpc[2] = "critical"
    /\ crit = 0

(***************************************************************************)
(* Properties of openmp_partc_matrix.                                      *)
(***************************************************************************)
RECURSIVE DotProduct(_, _, _, _, _)
DotProduct(m1, m2, r, c, n) ==
    IF n = 0 THEN 0
    ELSE DotProduct(m1, m2, r, c, n - 1) + m1[r][n - 1] * m2[n - 1][c]

(* The sequential product: for i, for j, for k: result[i][j] += ... *)
SequentialProduct(m1, m2) ==
    [r \in DOMAIN m1 |-> [c \in DOMAIN m1 |->
        DotProduct(m1, m2, r, c, Cardinality(DOMAIN m1))]]

(* C12: given a zero-initialised result matrix, each of the three          *)
(* strategies leaves resultMatrix[i][j] = sum over k of                    *)
(* matrix1[i][k] * matrix2[k][j], for every thread count and interleaving: *)
(* the results of the three are the sequential product.                    *)
C12_ProductStrategyIndependent ==
    (prog = OmpMatrix /\ fpc = "returned") =>
        resultMatrix = SequentialProduct(matrix1, matrix2)

C12_Witness ==
    /\ prog = OmpMatrix
    /\ fpc = "returned"
    /\ call.fn = Collapse
    /\ call.numThreads = kMatNumThreads
    /\ MatSize = 2
    /\ matrix1 = initMatrix(97, 2)
    /\ resultMatrix[1][1] = DotProduct(matrix1, matrix2, 1, 1, 2)

(* The cell of resultMatrix thread t is working on. *)
CellOf(t) ==
    <<RowOf(call.fn, MatSize, cur[t], rowI), ColOf(call.fn, MatSize, cur[t], tj[t])>>

(* Threads inside the statement resultMatrix[i][j] += ... or between two of them. *)
Updating == IF fpc = "loop" THEN {t \in Team : wpc[t] \in {"read", "write"}} ELSE {}

(* C24: the three strategies have no data race on the result: every cell   *)
(* resultMatrix[i][j] is read and written by exactly one thread during a   *)
(* call, no two threads are at the same cell at the same time, and no      *)
(* store of += overwrites an update made since its read.                   *)
C24_NoRaceOnResult ==
    prog = OmpMatrix =>
        /\ \A r \in DOMAIN accessedBy : \A c \in DOMAIN accessedBy :
              /\ Cardinality(accessedBy[r][c]) <= 1
              /\ fpc = "returned" => Cardinality(accessedBy[r][c]) = 1
        /\ \A t \in Updating : \A u \in Updating \ {t} : CellOf(t) # CellOf(u)
        /\ \A t \in Updating :
              wpc[t] = "write" =>
                  sum[t] = Added(resultMatrix[CellOf(t)[1]][CellOf(t)[2]],
                                 matrix1[CellOf(t)[1]][tk[t]],
                                 matrix2[tk[t]][CellOf(t)[2]])

(* Two threads are inside += at once, in different cells of one row. *)
C24_Witness ==
    /\ prog = OmpMatrix
    /\ call.fn = Collapse
    /\ MatSize = 2
    /\ call.numThreads = kMatNumThreads
    /\ fpc = "loop"
    /\ wpc[0] = "write"
    /\ wpc[1] = "write"
    /\ CellOf(0) = <<0, 0>>
    /\ CellOf(1) = <<0, 1>>
    /\ resultMatrix[0][0] > 0

(* Every cell of row r holds its final value. *)
RowComplete(r) ==
    \A c \in DOMAIN matrix1 :
        resultMatrix[r][c] = DotProduct(matrix1, matrix2, r, c, MatSize)

(* No thread has touched row r. *)
RowUntouched(r) ==
    \A c \in DOMAIN matrix1 : accessedBy[r][c] = {} /\ resultMatrix[r][c] = 0

InnerCall == prog = OmpMatrix /\ call.fn = Inner

(* Rows before i are finished and rows after i not begun; the threads of   *)
(* the team work on row i only.                                            *)
RowsInOrder ==
    InnerCall =>
        /\ \A r \in DOMAIN matrix1 :
              /\ r < rowI => RowComplete(r)
              /\ r > rowI => RowUntouched(r)
        /\ \A t \in Updating : CellOf(t)[1] = rowI

(* i goes up by one, and only when row i is finished. *)
RowAdvance ==
    InnerCall =>
        /\ rowI' \in {rowI, rowI + 1}
        /\ rowI' = rowI + 1 => RowComplete(rowI) /\ Updating = {}

(* C25: in multiplyInnerParallel the loop over i stays sequential: rows    *)
(* are processed in increasing order, and no thread starts on a cell of    *)
(* row i+1 before the team has completed every cell of row i.              *)
C25_InnerRowsSequential == [] RowsInOrder /\ [][RowAdvance]_vars

(* Two threads at work on row 1 after row 0 has been completed. *)
C25_Witness ==
    /\ InnerCall
    /\ MatSize = 2
    /\ call.numThreads = 2
    /\ fpc = "loop"
    /\ rowI = 1
    /\ RowComplete(0)
    /\ wpc[0] = "write"
    /\ wpc[1] = "read"

(* A matrix of the current dimension with every element zero. *)
ZeroNow(m) == m.size = kMatrixSize /\ m.products = 0

(* A matrix of the current dimension holding the product, once. *)
ProductNow(m) == m.size = kMatrixSize /\ m.products = 1

(* C26: results do not accumulate over the test runs: each of the three    *)
(* multiply calls of each repetition is handed a freshly zero-initialised  *)
(* matrix, so every call starts from an all-zero result and ends with      *)
(* exactly the product, although the functions add into the result.        *)
C26_NoAccumulation ==
    (prog = OmpMatrix /\ mainAt \in {"outer", "inner", "collapse", "runs"}) =>
        /\ mainAt = "outer" =>
              ZeroNow(outerResult) /\ ZeroNow(innerResult) /\ ZeroNow(collapseResult)
        /\ mainAt = "inner" =>
              ProductNow(outerResult) /\ ZeroNow(innerResult) /\ ZeroNow(collapseResult)
        /\ mainAt = "collapse" =>
              ProductNow(outerResult) /\ ProductNow(innerResult) /\ ZeroNow(collapseResult)
        /\ (mainAt = "runs" /\ j > 0) =>
              /\ ProductNow(outerResult)
              /\ ProductNow(innerResult)
              /\ ProductNow(collapseResult)

(* The last repetition for 16 threads on the 500 x 500 matrices. *)
C26_Witness ==
    /\ prog = OmpMatrix
    /\ mainAt = "runs"
    /\ j = kTestRuns
    /\ loopI = 1
    /\ threadIdx = 4
    /\ call = Call(Collapse, "static", 16, 0, FALSE)
    /\ ProductNow(collapseResult)

====
